---- MODULE Spec2Model ----
(***************************************************************************)
(* Model of the acrobot repository core (src/src/repo.py):                 *)
(* SqliteRepository.get / list_keys / add / remove / delete running as     *)
(* asyncio tasks against one SQLite (libsql) store.                        *)
(*                                                                         *)
(* Every store round trip (an awaited execute / commit) is one step; the   *)
(* synchronous code between two awaits belongs to the step of the store    *)
(* call it leads to.  Tasks interleave at the awaits only, as asyncio      *)
(* tasks do.                                                               *)
(*                                                                         *)
(* The store: the base table acro_kvs is a bag of (key, val) rows.  A      *)
(* transaction works on a private view and publishes it at commit; SQLite  *)
(* admits one writer at a time, so a write statement waits while another   *)
(* transaction is open.  A transaction whose owner left without commit     *)
(* stays open until the store rolls it back.                               *)
(***************************************************************************)
EXTENDS Integers, Sequences, FiniteSets, TLC

\* ---------------------------------------------------------------- bounds
\* longest value list passed to add / remove
MaxLen == 2
\* most rows in the store when the tasks start
MaxRows == 2

\* ------------------------------------------------------------ universes
Keys == {"key1", "key2"}
\* "" is the empty string: a value add stores and get never reports
Vals == {"", "value1", "value2", "value3"}
Tasks == {"t1", "t2"}

\* Status (StrEnum)
OK == "ok"
NO_KEY == "no_key"
NO_VALUES == "no_values"
\* an exception leaving the repository call (no Result is returned)
RAISED == "raised"

\* the data of the Result of add, remove and delete
None == "None"

\* LIMIT of list_keys
ListLimit == 10

\* the value lists passed to add / remove.  Both use a list through
\* `not values` and set(values) only, so of the lists that are permutations
\* of each other one is passed: the one in the order of ValOrder (duplicates
\* stay)
ValOrder == <<"", "value1", "value2", "value3">>
ValIndex(v) == CHOOSE i \in 1..Len(ValOrder) : ValOrder[i] = v
ValueLists ==
    {l \in UNION {[1..n -> Vals] : n \in 0..MaxLen} :
        \A i, j \in 1..Len(l) : i < j => ValIndex(l[i]) <= ValIndex(l[j])}

\* Python set(values)
ToSet(values) == {values[i] : i \in 1..Len(values)}

\* Python truthiness of a str
Truthy(v) == v # ""

\* ---------------------------------------------------------------- store
Pairs == Keys \X Vals
EmptyTable == [kv \in Pairs |-> 0]

\* SELECT val FROM acro_kvs WHERE key = ?  (the distinct values of the rows)
Rows(t, k) == {v \in Vals : t[<<k, v>>] > 0}

\* SELECT DISTINCT key FROM acro_kvs
PresentKeys(t) == {k \in Keys : Rows(t, k) # {}}

\* faulty variant: the table carries no UNIQUE (key, val) constraint
UniqueViolationOff(t, k, v) == FALSE

\* UNIQUE (key, val) of the schema: the INSERT statement fails
UniqueViolation(t, k, v) == t[<<k, v>>] > 0

\* INSERT INTO acro_kvs (key, val) VALUES (?, ?)
Insert(t, k, v) == [t EXCEPT ![<<k, v>>] = @ + 1]

\* faulty variant: the DELETE has no WHERE clause
DeleteKeyAll(t, k) == [kv \in Pairs |-> 0]

\* DELETE FROM acro_kvs WHERE key = ?
DeleteKey(t, k) == [kv \in Pairs |-> IF kv[1] = k THEN 0 ELSE t[kv]]

\* ------------------------------------------------------ texts and search
\* Keys, values and search terms as texts (sequences of characters), so that
\* letter case and substrings are what they are in the program.

\* LIMIT of search's ranked_rows
SearchLimit == 10

UpperToLower == [c \in {"A", "E", "K", "O", "Y"} |->
                    CASE c = "A" -> "a" [] c = "E" -> "e" [] c = "K" -> "k"
                      [] c = "O" -> "o" [] c = "Y" -> "y"]

\* str.lower()
Lower(text) == [i \in 1..Len(text) |->
                   IF text[i] \in DOMAIN UpperToLower
                   THEN UpperToLower[text[i]] ELSE text[i]]

\* faulty variant: an index that does not fold letter case
FoldNone(text) == text

\* the case folding of the search index, applied to the indexed text and to
\* the query
Fold(text) == Lower(text)

IsPrefix(t, text) == Len(t) <= Len(text) /\ SubSeq(text, 1, Len(t)) = t

IsSubstring(t, text) ==
    \E i \in 0..(Len(text) - Len(t)) : SubSeq(text, i + 1, i + Len(t)) = t

\* how well a column matches the query: 1 exact, 2 prefix, 3 substring,
\* 0 no match
MatchClass(text, t) ==
    LET ft == Fold(text)
        fq == Fold(t)
    IN  IF ft = fq THEN 1
        ELSE IF IsPrefix(fq, ft) THEN 2
        ELSE IF IsSubstring(fq, ft) THEN 3
        ELSE 0

\* rank of a row for `key MATCH t OR val MATCH t`: its better column
\* (0: the row does not match)
RowRank(r, t) ==
    LET a == MatchClass(r.key, t)
        b == MatchClass(r.val, t)
    IN  IF a = 0 THEN b ELSE IF b = 0 THEN a ELSE IF a < b THEN a ELSE b

\* the matching rows ORDER BY rank (rows of equal rank in rowid order):
\* every row is given its rank, the rows are ordered by it, the rank column
\* is dropped
RankedRows(rows, t) ==
    LET ranked == [i \in 1..Len(rows) |->
                     [row |-> rows[i], rank |-> RowRank(rows[i], t)]]
        R1(x) == x.rank = 1
        R2(x) == x.rank = 2
        R3(x) == x.rank = 3
        sorted == SelectSeq(ranked, R1) \o SelectSeq(ranked, R2)
                     \o SelectSeq(ranked, R3)
    IN  [i \in 1..Len(sorted) |-> sorted[i].row]

\* LIMIT n
Limit(seq, n) == IF Len(seq) <= n THEN seq ELSE SubSeq(seq, 1, n)

\* SELECT DISTINCT acro_kvs.key over the joined rows, in their order
RECURSIVE DistinctKeys(_)
DistinctKeys(rows) ==
    IF rows = <<>> THEN <<>>
    ELSE LET front == DistinctKeys(SubSeq(rows, 1, Len(rows) - 1))
             k == rows[Len(rows)].key
         IN  IF \E i \in 1..Len(front) : front[i] = k THEN front
             ELSE Append(front, k)

\* faulty variant: search without the LIMIT on ranked_rows
searchNoLimit(rows, term) ==
    IF term = <<>> THEN [status |-> NO_KEY, data |-> <<>>, calls |-> 0]
    ELSE LET data == DistinctKeys(RankedRows(rows, Lower(term)))
         IN  [status |-> IF data = <<>> THEN NO_KEY ELSE OK,
              data |-> data, calls |-> 1]

\* faulty variant: search without the empty-term check
searchNoTermCheck(rows, term) ==
    LET data == DistinctKeys(Limit(RankedRows(rows, Lower(term)), SearchLimit))
    IN  [status |-> IF data = <<>> THEN NO_KEY ELSE OK,
         data |-> data, calls |-> 1]

\* SqliteRepository.search; calls counts the store calls it issues
search(rows, term) ==
    IF term = <<>> THEN [status |-> NO_KEY, data |-> <<>>, calls |-> 0]
    ELSE LET ranked_rows == Limit(RankedRows(rows, Lower(term)), SearchLimit)
             data == DistinctKeys(ranked_rows)
         IN  [status |-> IF data = <<>> THEN NO_KEY ELSE OK,
              data |-> data, calls |-> 1]

\* the distinct keys of the rows
IdxKeys(rows) == {rows[i].key : i \in 1..Len(rows)}

RowsOf(rows, k) == {i \in 1..Len(rows) : rows[i].key = k}

\* the keys and values of the store as texts
TextOf == [s \in Keys \cup Vals |->
             CASE s = "key1" -> <<"k", "e", "y", "1">>
               [] s = "key2" -> <<"k", "e", "y", "2">>
               [] s = "" -> <<>>
               [] s = "value1" -> <<"v", "a", "l", "u", "e", "1">>
               [] s = "value2" -> <<"v", "a", "l", "u", "e", "2">>
               [] s = "value3" -> <<"v", "a", "l", "u", "e", "3">>]

\* the terms the tasks search for: "", KEY1, value1
SearchTerms == {<<>>, <<"K", "E", "Y", "1">>,
                <<"v", "a", "l", "u", "e", "1">>}

\* the rows of a table as a sequence of (key, val) texts
RECURSIVE RowSeq(_)
RowSeq(S) == IF S = {} THEN <<>>
             ELSE LET kv == CHOOSE x \in S : TRUE
                  IN  <<[key |-> TextOf[kv[1]], val |-> TextOf[kv[2]]]>>
                         \o RowSeq(S \ {kv})

\* ------------------------------------------------------------ variables
VARIABLES
    tbl,      \* committed rows of acro_kvs
    writer,   \* owner of the open write transaction: a task, "orphan", "none"
    txView,   \* the open transaction's view of acro_kvs (EmptyTable if none)
    task,     \* per task: the call it runs and where it is
    ref,      \* the reference map the sequential calls are compared with
    client,   \* SqliteRepository._client: a store client or "none" (None)
    db_client,\* the module global _db_client of db.py: a client or "none"
    closed,   \* the store clients that have been closed
    hand,     \* the command handler that is running, or the last one that ran
    hist,     \* the store clients the sessions held, in order of acquisition
    conc,     \* per concurrent command handler: where it is in `async with repo`
    idx,      \* the rows of acro_kvs as texts, in rowid order (list_keys, search)
    qres,     \* the Result of the last list_keys / search on idx
    boot      \* init_db: where it is, the schema it read, the store calls it made

storeVars == <<tbl, writer, txView, task, ref>>
sessVars == <<client, db_client, closed, hand, hist, conc>>
queryVars == <<idx, qres>>
bootVars == <<boot>>
vars == <<tbl, writer, txView, task, ref, client, db_client, closed, hand, hist,
          conc, idx, qres, boot>>

\* no command has been handled yet; args are the words after the command
\* word, key and values the handler's locals after parse_command_args, reply
\* the error message returned before `async with repo` ("none": none was)
NoHandler == [cmd |-> "none", pc |-> "idle", ops |-> 0, entered |-> FALSE,
              handle |-> "none", failed |-> FALSE, n |-> 0,
              args |-> <<>>, key |-> <<>>, values |-> <<>>, reply |-> "none"]

\* the reference map before any call: every key maps to the empty set
NoRef == [map |-> [k \in Keys |-> {}], status |-> "none", data |-> {}, n |-> 0]

\* a task is one invocation of a repository operation; until it is invoked
\* it is idle.  values holds set(values), which is empty exactly when the
\* list is; pre is the committed table at the time of the call's first read
\* and seq the order in which the calls were issued; raised_at is the store
\* call of the invocation that raised ("none": none did)
Idle == [pc |-> "idle", op |-> "none", key |-> "none", values |-> {},
         todo |-> {}, status |-> "none", data |-> {}, pre |-> EmptyTable,
         seq |-> 0, raised_at |-> "none", term |-> <<>>]

\* Result(status, data) handed to the caller
Done(r, status, data) == [r EXCEPT !.pc = "done", !.todo = {},
                                   !.status = status, !.data = data]

\* faulty variant: the exception of a store call is caught and turned into
\* a Result
RaiseAsResult(r) == [r EXCEPT !.pc = "done", !.todo = {}, !.status = NO_KEY,
                              !.data = {}, !.raised_at = r.pc]

\* a store call made at r.pc raises: no operation of SqliteRepository has a
\* try / except, the exception leaves the call and no Result is returned
Raise(r) == [r EXCEPT !.pc = "done", !.todo = {}, !.status = RAISED,
                      !.data = {}, !.raised_at = r.pc]

\* a call enters the repository
Started == {p \in Tasks : task[p].pc # "idle"}
Enter(op, k, values) ==
    [Idle EXCEPT !.op = op, !.key = k,
                 !.values = ToSet(values),
                 !.pre = tbl, !.seq = Cardinality(Started) + 1]

\* faulty variant: get tests the filtered data, not the rows, for NO_KEY
getByData(t, k) ==
    IF {v \in Rows(t, k) : Truthy(v)} = {}
    THEN [status |-> NO_KEY, data |-> {}]
    ELSE [status |-> OK, data |-> {v \in Rows(t, k) : Truthy(v)}]

\* SqliteRepository.get
get(t, k) ==
    IF Rows(t, k) = {}
    THEN [status |-> NO_KEY, data |-> {}]
    ELSE [status |-> OK, data |-> {v \in Rows(t, k) : Truthy(v)}]

\* faulty variant: ORDER BY RANDOM() without the LIMIT
SampleAll(S) == {S}

\* ORDER BY RANDOM() LIMIT 10 over a set of distinct keys: every possible sample
Sample(S) ==
    IF Cardinality(S) <= ListLimit THEN {S}
    ELSE {X \in SUBSET S : Cardinality(X) = ListLimit}

\* SqliteRepository.list_keys: SELECT DISTINCT key ... ORDER BY RANDOM() LIMIT 10
list_keys(t) == Sample(PresentKeys(t))

\* the rows of the store are sums over the pairs
RECURSIVE Total(_, _)
Total(t, S) == IF S = {} THEN 0
               ELSE LET kv == CHOOSE x \in S : TRUE IN t[kv] + Total(t, S \ {kv})

\* the store the tasks find: any table earlier calls can have left (no
\* duplicate pair), up to MaxRows rows
InitTables == {t \in [Pairs -> {0, 1}] : Total(t, Pairs) <= MaxRows}

\* the command handlers that run at the same time
Handlers == {"h1", "h2"}

\* no concurrent handler has started
NoConc == [h \in Handlers |-> [cmd |-> "none", pc |-> "idle", ops |-> 0,
                               failed |-> FALSE]]

\* the repository of the tests' fixture: constructed with a client and entered
SessFixture ==
    /\ conc = NoConc
    /\ client = "given"
    /\ db_client = "none"
    /\ closed = {}
    /\ hand = NoHandler
    /\ hist = <<"given">>

\* no rows as texts, no query yet
NoQuery == [op |-> "none", term |-> <<>>, status |-> "none", keys |-> <<>>,
            sample |-> {}, calls |-> 0]
QueryIdle ==
    /\ idx = <<>>
    /\ qres = NoQuery

\* init_db has not been called: no path, no schema read, no store call made,
\* no client created
NoBoot == [pc |-> "idle", path |-> "none", ddl |-> <<>>, calls |-> <<>>,
           client |-> "none", raised |-> FALSE]
BootIdle == boot = NoBoot

Init ==
    /\ tbl \in InitTables
    /\ writer = "none"
    /\ txView = EmptyTable
    /\ task = [p \in Tasks |-> Idle]
    /\ ref = NoRef
    /\ SessFixture
    /\ QueryIdle
    /\ BootIdle

\* the tasks are named in the order in which their calls are issued
CanStart(p) == task[p].pc = "idle" /\ (p = "t2" => task["t1"].pc # "idle")

\* ------------------------------------------------------------------ get
CallGet(p, k) ==
    /\ LET g == get(tbl, k)
       IN task' = [task EXCEPT ![p] = Done(Enter("get", k, <<>>), g.status, g.data)]
    /\ UNCHANGED <<tbl, writer, txView>>
    /\ UNCHANGED <<sessVars, queryVars, bootVars, ref>>

\* ------------------------------------------------------------ list_keys
CallListKeys(p) ==
    /\ \E S \in list_keys(tbl) :
         task' = [task EXCEPT ![p] = Done(Enter("list_keys", "none", <<>>), OK, S)]
    /\ UNCHANGED <<tbl, writer, txView>>
    /\ UNCHANGED <<sessVars, queryVars, bootVars, ref>>

\* --------------------------------------------------------------- search
\* faulty variant: a DELETE on acro_kvs does not reach the index: it still
\* holds the rows that a call found in the table
IndexRowsKeepDeleted(t) ==
    RowSeq({kv \in Pairs : t[kv] > 0 \/ \E p \in Tasks : task[p].pre[kv] > 0})

\* the rows of the search index acro_kvs_fts: the schema keeps it in step
\* with acro_kvs inside the writing transaction, so it holds the committed
\* rows of the base table
IndexRows(t) == RowSeq({kv \in Pairs : t[kv] > 0})

\* SqliteRepository.search on the store of the tasks; data is the set of the
\* keys returned
CallSearch(p, term) ==
    /\ LET r == search(IndexRows(tbl), term)
           e == [Enter("search", "none", <<>>) EXCEPT !.term = term]
       IN  task' = [task EXCEPT ![p] =
                       Done(e, r.status,
                            {k \in Keys : \E i \in 1..Len(r.data) : r.data[i] = TextOf[k]})]
    /\ UNCHANGED <<tbl, writer, txView>>
    /\ UNCHANGED <<sessVars, queryVars, bootVars, ref>>

\* ------------------------------------------------------------------ add
\* faulty variant: add without the empty-values check
AddStartNoCheck(k, values) ==
    LET e == Enter("add", k, values)
        new_values == ToSet(values) \ get(tbl, k).data
    IN  IF new_values = {} THEN Done(e, OK, None)
        ELSE [e EXCEPT !.pc = "add_insert", !.todo = new_values]

\* faulty variant: add inserts every value passed, stored or not
AddStartNoDiff(k, values) ==
    LET e == Enter("add", k, values)
    IN  IF values = <<>> THEN Done(e, NO_VALUES, None)
        ELSE [e EXCEPT !.pc = "add_insert", !.todo = ToSet(values)]

\* add up to the first INSERT: the values check, get(key), new_values
AddStart(k, values) ==
    LET e == Enter("add", k, values)
        existing_values == get(tbl, k).data
        new_values == ToSet(values) \ existing_values
    IN  IF values = <<>> THEN Done(e, NO_VALUES, None)
        ELSE IF new_values = {} THEN Done(e, OK, None)
        ELSE [e EXCEPT !.pc = "add_insert", !.todo = new_values]

CallAdd(p, k, values) ==
    /\ task' = [task EXCEPT ![p] = AddStart(k, values)]
    /\ UNCHANGED <<tbl, writer, txView>>
    /\ UNCHANGED <<sessVars, queryVars, bootVars, ref>>

\* faulty variant: add runs each INSERT on the client (autocommit), not in a transaction
AddInsertAutocommit(p) ==
    /\ task[p].pc = "add_insert"
    /\ writer = "none"
    /\ \E v \in task[p].todo :
         IF UniqueViolation(tbl, task[p].key, v)
         THEN /\ task' = [task EXCEPT ![p] = Raise(@)]
              /\ tbl' = tbl
         ELSE /\ task' = [task EXCEPT ![p] = IF task[p].todo = {v}
                                             THEN Done(@, OK, None)
                                             ELSE [@ EXCEPT !.todo = @ \ {v}]]
              /\ tbl' = Insert(tbl, task[p].key, v)
    /\ UNCHANGED <<writer, txView>>
    /\ UNCHANGED <<sessVars, queryVars, bootVars, ref>>

\* one tx.execute(INSERT ...) of add's loop; the first one opens the transaction
AddInsert(p) ==
    /\ task[p].pc = "add_insert"
    /\ writer \in {"none", p}
    /\ LET view == IF writer = p THEN txView ELSE tbl
           k == task[p].key
       IN \E v \in task[p].todo :
            IF UniqueViolation(view, k, v)
            THEN /\ task' = [task EXCEPT ![p] = Raise(@)]
                 /\ writer' = "orphan"
                 /\ txView' = view
            ELSE /\ task' = [task EXCEPT ![p].todo = @ \ {v},
                                         ![p].pc = IF task[p].todo = {v}
                                                   THEN "add_commit" ELSE "add_insert"]
                 /\ writer' = p
                 /\ txView' = Insert(view, k, v)
    /\ UNCHANGED tbl
    /\ UNCHANGED <<sessVars, queryVars, bootVars, ref>>

\* tx.commit() and return OK
AddCommit(p) ==
    /\ task[p].pc = "add_commit"
    /\ writer = p
    /\ tbl' = txView
    /\ writer' = "none"
    /\ txView' = EmptyTable
    /\ task' = [task EXCEPT ![p] = Done(@, OK, None)]
    /\ UNCHANGED <<sessVars, queryVars, bootVars, ref>>

\* --------------------------------------------------------------- remove
\* faulty variant: remove re-inserts every existing value (the difference is dropped)
RemoveStartKeepAll(k, values) ==
    LET e == Enter("remove", k, values)
        existing_result == get(tbl, k)
        existing_values == existing_result.data
        values_to_remove == ToSet(values)
    IN  IF values = <<>> THEN Done(e, NO_VALUES, None)
        ELSE IF existing_result.status # OK THEN Done(e, NO_KEY, None)
        ELSE IF ~(values_to_remove \subseteq existing_values) THEN Done(e, NO_VALUES, None)
        ELSE [e EXCEPT !.pc = "remove_delete", !.todo = existing_values]

\* faulty variant: remove looks the key up before it checks the value list
RemoveStartKeyFirst(k, values) ==
    LET e == Enter("remove", k, values)
        existing_result == get(tbl, k)
        existing_values == existing_result.data
        values_to_remove == ToSet(values)
        remaining_values == existing_values \ values_to_remove
    IN  IF existing_result.status # OK THEN Done(e, NO_KEY, None)
        ELSE IF values = <<>> THEN Done(e, NO_VALUES, None)
        ELSE IF ~(values_to_remove \subseteq existing_values) THEN Done(e, NO_VALUES, None)
        ELSE IF remaining_values = {} THEN [e EXCEPT !.pc = "delete_get"]
        ELSE [e EXCEPT !.pc = "remove_delete", !.todo = remaining_values]

\* remove up to its first write: the values check, get(key), the subset test
RemoveStart(k, values) ==
    LET e == Enter("remove", k, values)
        existing_result == get(tbl, k)
        existing_values == existing_result.data
        values_to_remove == ToSet(values)
        remaining_values == existing_values \ values_to_remove
    IN  IF values = <<>> THEN Done(e, NO_VALUES, None)
        ELSE IF existing_result.status # OK THEN Done(e, NO_KEY, None)
        ELSE IF ~(values_to_remove \subseteq existing_values) THEN Done(e, NO_VALUES, None)
        ELSE IF remaining_values = {} THEN [e EXCEPT !.pc = "delete_get"]
        ELSE [e EXCEPT !.pc = "remove_delete", !.todo = remaining_values]

\* faulty variant: when the values are not all present, remove deletes the
\* ones that are and reports NO_VALUES
CallRemovePartial(p, k, values) ==
    /\ task' = [task EXCEPT ![p] = RemoveStart(k, values)]
    /\ tbl' = IF RemoveStart(k, values).status = NO_VALUES
              THEN [kv \in Pairs |-> IF kv[1] = k /\ kv[2] \in ToSet(values)
                                     THEN 0 ELSE tbl[kv]]
              ELSE tbl
    /\ UNCHANGED <<writer, txView>>
    /\ UNCHANGED <<sessVars, queryVars, bootVars, ref>>

CallRemove(p, k, values) ==
    /\ task' = [task EXCEPT ![p] = RemoveStart(k, values)]
    /\ UNCHANGED <<tbl, writer, txView>>
    /\ UNCHANGED <<sessVars, queryVars, bootVars, ref>>

\* faulty variant: remove's DELETE runs on the client (autocommit)
RemoveDeleteAutocommit(p) ==
    /\ task[p].pc = "remove_delete"
    /\ writer = "none"
    /\ writer' = p
    /\ tbl' = DeleteKey(tbl, task[p].key)
    /\ txView' = DeleteKey(tbl, task[p].key)
    /\ task' = [task EXCEPT ![p].pc = "remove_insert"]
    /\ UNCHANGED <<sessVars, queryVars, bootVars, ref>>

\* faulty variant: remove deletes the rows of the values to remove only and
\* re-inserts nothing
RemoveDeleteOnlyRemoved(p) ==
    /\ task[p].pc = "remove_delete"
    /\ writer = "none"
    /\ writer' = p
    /\ txView' = [kv \in Pairs |->
                    IF kv[1] = task[p].key /\ kv[2] \in task[p].values
                    THEN 0 ELSE tbl[kv]]
    /\ task' = [task EXCEPT ![p].pc = "remove_commit", ![p].todo = {}]
    /\ UNCHANGED tbl
    /\ UNCHANGED <<sessVars, queryVars, bootVars, ref>>

\* tx.execute(DELETE ...): opens remove's transaction
RemoveDelete(p) ==
    /\ task[p].pc = "remove_delete"
    /\ writer = "none"
    /\ writer' = p
    /\ txView' = DeleteKey(tbl, task[p].key)
    /\ task' = [task EXCEPT ![p].pc = "remove_insert"]
    /\ UNCHANGED tbl
    /\ UNCHANGED <<sessVars, queryVars, bootVars, ref>>

\* one tx.execute(INSERT ...) of remove's loop over remaining_values
RemoveInsert(p) ==
    /\ task[p].pc = "remove_insert"
    /\ writer = p
    /\ LET k == task[p].key
       IN \E v \in task[p].todo :
            IF UniqueViolation(txView, k, v)
            THEN /\ task' = [task EXCEPT ![p] = Raise(@)]
                 /\ writer' = "orphan"
                 /\ txView' = txView
            ELSE /\ task' = [task EXCEPT ![p].todo = @ \ {v},
                                         ![p].pc = IF task[p].todo = {v}
                                                   THEN "remove_commit" ELSE "remove_insert"]
                 /\ writer' = p
                 /\ txView' = Insert(txView, k, v)
    /\ UNCHANGED tbl
    /\ UNCHANGED <<sessVars, queryVars, bootVars, ref>>

\* tx.commit() and return OK
RemoveCommit(p) ==
    /\ task[p].pc = "remove_commit"
    /\ writer = p
    /\ tbl' = txView
    /\ writer' = "none"
    /\ txView' = EmptyTable
    /\ task' = [task EXCEPT ![p] = Done(@, OK, None)]
    /\ UNCHANGED <<sessVars, queryVars, bootVars, ref>>

\* --------------------------------------------------------------- delete
\* faulty variant: delete without the existence check
DeleteCheckNone(r) == [r EXCEPT !.pc = "delete_exec"]

\* faulty variant: delete reports a missing key as NO_VALUES
DeleteCheckNoValues(r) ==
    IF get(tbl, r.key).status # OK
    THEN Done(r, IF r.op = "remove" THEN OK ELSE NO_VALUES, None)
    ELSE [r EXCEPT !.pc = "delete_exec"]

\* delete's get(key) and status check: NO_KEY, or on to the DELETE
DeleteCheck(r) ==
    IF get(tbl, r.key).status # OK
    THEN Done(r, IF r.op = "remove" THEN OK ELSE NO_KEY, None)
    ELSE [r EXCEPT !.pc = "delete_exec"]

CallDelete(p, k) ==
    /\ task' = [task EXCEPT ![p] = DeleteCheck(Enter("delete", k, <<>>))]
    /\ UNCHANGED <<tbl, writer, txView>>
    /\ UNCHANGED <<sessVars, queryVars, bootVars, ref>>

\* the get(key) of the delete(key) that remove calls when nothing remains
DeleteGet(p) ==
    /\ task[p].pc = "delete_get"
    /\ task' = [task EXCEPT ![p] = DeleteCheck(@)]
    /\ UNCHANGED <<tbl, writer, txView>>
    /\ UNCHANGED <<sessVars, queryVars, bootVars, ref>>

\* client.execute(DELETE ...) in autocommit, then OK (remove ignores the result)
DeleteExec(p) ==
    /\ task[p].pc = "delete_exec"
    /\ writer = "none"
    /\ tbl' = DeleteKey(tbl, task[p].key)
    /\ task' = [task EXCEPT ![p] = Done(@, OK, None)]
    /\ UNCHANGED <<writer, txView>>
    /\ UNCHANGED <<sessVars, queryVars, bootVars, ref>>

\* ----------------------------------------------------------- environment
\* a transaction left open by a failed call is rolled back by the store
OrphanRollback ==
    /\ writer = "orphan"
    /\ writer' = "none"
    /\ txView' = EmptyTable
    /\ UNCHANGED <<tbl, task>>
    /\ UNCHANGED <<sessVars, queryVars, bootVars, ref>>

Call(p) ==
    /\ CanStart(p)
    /\ \/ \E k \in Keys : CallGet(p, k)
       \/ CallListKeys(p)
       \/ \E k \in Keys, values \in ValueLists : CallAdd(p, k, values)
       \/ \E k \in Keys, values \in ValueLists : CallRemove(p, k, values)
       \/ \E k \in Keys : CallDelete(p, k)

Step(p) ==
    \/ AddInsert(p)
    \/ AddCommit(p)
    \/ RemoveDelete(p)
    \/ RemoveInsert(p)
    \/ RemoveCommit(p)
    \/ DeleteGet(p)
    \/ DeleteExec(p)

\* no other call is in flight
Alone(p) == \A q \in Tasks \ {p} : task[q].pc \in {"idle", "done"}

\* calls issued concurrently, interleaving at every store call
Next ==
    \/ \E p \in Tasks : Call(p)
    \/ \E p \in Tasks : Step(p)
    \/ OrphanRollback

Spec == Init /\ [][Next]_vars

\* calls issued one after another: a call starts only when none is in flight
SeqNext ==
    \/ \E p \in Tasks : Alone(p) /\ Call(p)
    \/ \E p \in Tasks : Step(p)
    \/ OrphanRollback

SeqSpec == Init /\ [][SeqNext]_vars

\* ------------------------------------------------------- reference map
\* Calls of get, add, remove and delete run one after the other from an
\* empty store, with non-empty strings as values, next to a map from keys to
\* sets of values on which add is union, remove is difference and delete
\* clears the key.

\* most calls in one run
MaxCalls == 4

\* the value lists without the empty string
RefLists == {l \in ValueLists : "" \notin ToSet(l)}

\* the reference map after the call, and the Result the map gives
RefApply(r, op, k, V) ==
    LET S == r.map[k]
        same(status, data) == [r EXCEPT !.status = status, !.data = data,
                                        !.n = @ + 1]
        to(T) == [r EXCEPT !.map[k] = T, !.status = OK, !.data = {},
                           !.n = @ + 1]
    IN  CASE op = "get" ->
               IF S = {} THEN same(NO_KEY, {}) ELSE same(OK, S)
          [] op = "add" ->
               IF V = {} THEN same(NO_VALUES, {}) ELSE to(S \cup V)
          [] op = "remove" ->
               IF V = {} THEN same(NO_VALUES, {})
               ELSE IF S = {} THEN same(NO_KEY, {})
               ELSE IF ~(V \subseteq S) THEN same(NO_VALUES, {})
               ELSE to(S \ V)
          [] op = "delete" ->
               IF S = {} THEN same(NO_KEY, {}) ELSE to({})

\* the next call of the sequence is issued once the previous one has
\* returned: the repository operation up to its first write, and the same
\* call on the reference map
RefCall(op, k, values) ==
    /\ task["t1"].pc \in {"idle", "done"}
    /\ ref.n < MaxCalls
    /\ op \in {"get", "delete"} => values = <<>>
    /\ task' = [task EXCEPT !["t1"] =
                   CASE op = "get" ->
                          Done(Enter("get", k, <<>>), get(tbl, k).status,
                               get(tbl, k).data)
                     [] op = "add" -> AddStart(k, values)
                     [] op = "remove" -> RemoveStart(k, values)
                     [] op = "delete" -> DeleteCheck(Enter("delete", k, <<>>))]
    /\ ref' = RefApply(ref, op, k, ToSet(values))
    /\ UNCHANGED <<tbl, writer, txView>>
    /\ UNCHANGED <<sessVars, queryVars, bootVars>>

RefInit ==
    /\ tbl = EmptyTable
    /\ writer = "none"
    /\ txView = EmptyTable
    /\ task = [p \in Tasks |-> Idle]
    /\ ref = NoRef
    /\ SessFixture
    /\ QueryIdle
    /\ BootIdle

RefNext ==
    \/ \E op \in {"get", "add", "remove", "delete"}, k \in Keys,
          values \in RefLists : RefCall(op, k, values)
    \/ Step("t1")

RefSpec == RefInit /\ [][RefNext]_vars

\* ------------------------------------------------- search on the store
\* One call of get, list_keys, add, remove or delete and one search, issued
\* before, during or after it.
SearchAnyTime(term) ==
    /\ task["t2"].pc = "idle"
    /\ CallSearch("t2", term)

SearchNext ==
    \/ Call("t1")
    \/ Step("t1")
    \/ \E term \in SearchTerms : SearchAnyTime(term)
    \/ OrphanRollback

SearchSpec == Init /\ [][SearchNext]_vars

\* -------------------------------------------------------- store failures
\* One call on a store whose calls can fail (unreachable store, timeout,
\* failed statement, failed commit): the awaited store call raises.

\* the positions at which a call awaits a store call
InFlight == {"add_insert", "add_commit", "remove_delete", "remove_insert",
             "remove_commit", "delete_get", "delete_exec"}

\* the first store call of an operation raises: the execute of get, of
\* list_keys and of search, the get(key) of add, remove and delete.  add and
\* remove with an empty list and search with an empty term return before any
\* store call
CallFails(p) ==
    /\ CanStart(p)
    /\ \/ \E op \in {"get", "list_keys", "add", "remove", "delete"},
             k \in Keys, values \in ValueLists :
             /\ op \in {"add", "remove"} <=> values # <<>>
             /\ op = "list_keys" => k = "key1"
             /\ task' = [task EXCEPT ![p] =
                            Raise([Enter(op, IF op = "list_keys" THEN "none" ELSE k,
                                         values) EXCEPT !.pc = "call"])]
       \/ \E term \in SearchTerms \ {<<>>} :
             task' = [task EXCEPT ![p] =
                         Raise([Enter("search", "none", <<>>)
                                   EXCEPT !.pc = "call", !.term = term])]
    /\ UNCHANGED <<tbl, writer, txView>>
    /\ UNCHANGED <<sessVars, queryVars, bootVars, ref>>

\* a later store call raises: the transaction the call opened stays open
\* (no rollback in add / remove), nothing is committed
StepFails(p) ==
    /\ task[p].pc \in InFlight
    /\ task' = [task EXCEPT ![p] = Raise(@)]
    /\ writer' = IF writer = p THEN "orphan" ELSE writer
    /\ UNCHANGED <<tbl, txView>>
    /\ UNCHANGED <<sessVars, queryVars, bootVars, ref>>

\* the one call is a search
SearchAlone(term) ==
    /\ CanStart("t1")
    /\ CallSearch("t1", term)

FailNext ==
    \/ Call("t1")
    \/ \E term \in SearchTerms : SearchAlone(term)
    \/ Step("t1")
    \/ CallFails("t1")
    \/ StepFails("t1")
    \/ OrphanRollback

FailSpec == Init /\ [][FailNext]_vars

\* ------------------------------------------------------------- sessions
\* The command handlers of cmds.py, run one after the other on the single
\* repository of run_bot: each wraps its repository calls in `async with repo`.

\* most commands handled in one run
MaxCommands == 3

Commands == {"add", "get", "search", "remove", "delete", "list"}

\* the repository calls in the body of the handler's `async with repo`
OpsOf(cmd) == IF cmd = "get" THEN 2 ELSE 1

\* db.get_db_client: the module-wide client, created on first use
get_db_client == IF db_client # "none" THEN db_client ELSE "single"

\* the handler up to the body of `async with repo`: the argument checks
\* (valid: they pass; handle_list has none) and SqliteRepository.__aenter__
HandleStart(cmd, valid) ==
    /\ hand.pc \in {"idle", "exited"}
    /\ hand.n < MaxCommands
    /\ valid \/ cmd # "list"
    /\ IF ~valid
       THEN /\ hand' = [NoHandler EXCEPT !.cmd = cmd, !.pc = "exited",
                                         !.n = hand.n + 1]
            /\ UNCHANGED <<client, db_client, hist>>
       ELSE /\ client' = IF client = "none" THEN get_db_client ELSE client
            /\ db_client' = IF client = "none" THEN get_db_client ELSE db_client
            /\ hist' = Append(hist, client')
            /\ hand' = [NoHandler EXCEPT !.cmd = cmd, !.pc = "body",
                                         !.ops = OpsOf(cmd), !.entered = TRUE,
                                         !.handle = client', !.n = hand.n]
    /\ UNCHANGED <<closed, conc>>
    /\ UNCHANGED <<storeVars, queryVars, bootVars>>

\* one repository call of the body: on a closed client it raises; on an open
\* one it returns or (fails) a store call raises
HandleBody(fails) ==
    /\ hand.pc = "body"
    /\ IF client \in closed \/ fails
       THEN hand' = [hand EXCEPT !.pc = "exit", !.failed = TRUE]
       ELSE hand' = [hand EXCEPT !.ops = @ - 1,
                                 !.pc = IF hand.ops = 1 THEN "exit" ELSE "body"]
    /\ UNCHANGED <<client, db_client, closed, hist, conc>>
    /\ UNCHANGED <<storeVars, queryVars, bootVars>>

\* faulty variant: the client is closed only when the body returned
aexitOnSuccess ==
    /\ closed' = IF client # "none" /\ ~hand.failed
                 THEN closed \cup {client} ELSE closed
    /\ client' = IF client # "none" /\ ~hand.failed THEN "none" ELSE client

\* SqliteRepository.__aexit__
aexit ==
    /\ closed' = IF client # "none" THEN closed \cup {client} ELSE closed
    /\ client' = "none"

\* the end of `async with repo`, on return and on exception alike; then the
\* handler returns its reply or the exception reaches acrobot
HandleExit ==
    /\ hand.pc = "exit"
    /\ aexit
    /\ hand' = [hand EXCEPT !.pc = "exited", !.n = @ + 1]
    /\ UNCHANGED <<db_client, hist, conc>>
    /\ UNCHANGED <<storeVars, queryVars, bootVars>>

\* run_bot: SqliteRepository(); the tests: SqliteRepository(db_client=...)
SessInit ==
    /\ tbl = EmptyTable
    /\ writer = "none"
    /\ txView = EmptyTable
    /\ task = [p \in Tasks |-> Idle]
    /\ ref = NoRef
    /\ client \in {"none", "given"}
    /\ db_client = "none"
    /\ closed = {}
    /\ hand = NoHandler
    /\ hist = <<>>
    /\ conc = NoConc
    /\ QueryIdle
    /\ BootIdle

SessNext ==
    \/ \E cmd \in Commands, valid \in BOOLEAN : HandleStart(cmd, valid)
    \/ \E fails \in BOOLEAN : HandleBody(fails)
    \/ HandleExit

SessSpec == SessInit /\ [][SessNext]_vars

\* -------------------------------------------------------- command input
\* The command handlers on the words of a message.  context.args holds the
\* words of the message (no whitespace inside a word); the handler joins the
\* words after the command word with single spaces and parse_command_args
\* splits the text again the way a POSIX shell does.  Texts are sequences of
\* characters.

\* most words after the command word
MaxArgs == 3

Space == " "
Quote == "\""

\* the words a message is made of
ArgWords == {<<"k">>, <<"v">>, <<Quote, Quote>>, <<Quote>>}

ArgLists == UNION {[1..n -> ArgWords] : n \in 0..MaxArgs}

\* " ".join(args[1:])
RECURSIVE Join(_)
Join(words) ==
    IF words = <<>> THEN <<>>
    ELSE IF Len(words) = 1 THEN words[1]
    ELSE words[1] \o <<Space>> \o Join(Tail(words))

\* shlex.split on a text of letters, spaces and double quotes: st is where
\* the scanner is ("space": between tokens, "word": in a token, "quote":
\* inside double quotes), tok the token read so far, out the tokens emitted.
\* A quote left open at the end of the text raises ValueError.
RECURSIVE shlex_scan(_, _, _, _)
shlex_scan(s, st, tok, out) ==
    IF s = <<>>
    THEN IF st = "quote" THEN [ok |-> FALSE, tokens |-> <<>>]
         ELSE IF st = "word" THEN [ok |-> TRUE, tokens |-> Append(out, tok)]
         ELSE [ok |-> TRUE, tokens |-> out]
    ELSE LET c == Head(s)
             r == Tail(s)
         IN  IF st = "space"
             THEN IF c = Space THEN shlex_scan(r, "space", <<>>, out)
                  ELSE IF c = Quote THEN shlex_scan(r, "quote", <<>>, out)
                  ELSE shlex_scan(r, "word", <<c>>, out)
             ELSE IF st = "word"
             THEN IF c = Space THEN shlex_scan(r, "space", <<>>, Append(out, tok))
                  ELSE IF c = Quote THEN shlex_scan(r, "quote", tok, out)
                  ELSE shlex_scan(r, "word", Append(tok, c), out)
             ELSE IF c = Quote THEN shlex_scan(r, "word", tok, out)
                  ELSE shlex_scan(r, "quote", Append(tok, c), out)

shlex_split(s) == shlex_scan(s, "space", <<>>, <<>>)

\* what parse_command_args hands back: (key, values), or the message of the
\* ValueError it raises
Parsed(key, values) == [error |-> "none", key |-> key, values |-> values]
ParseError(msg) == [error |-> msg, key |-> <<>>, values |-> <<>>]

\* faulty variant: the key is not checked for emptiness
parse_command_args_any_key(command_args, require_values) ==
    LET sp == shlex_split(command_args)
        args == sp.tokens
    IN  IF ~sp.ok THEN ParseError("No closing quotation")
        ELSE IF Len(args) < 1 THEN ParseError("Missing key argument.")
        ELSE IF require_values /\ Tail(args) = <<>>
             THEN ParseError("Values must not be empty.")
        ELSE Parsed(args[1], Tail(args))

\* cmds.parse_command_args
parse_command_args(command_args, require_values) ==
    LET sp == shlex_split(command_args)
        args == sp.tokens
    IN  IF ~sp.ok THEN ParseError("No closing quotation")
        ELSE IF Len(args) < 1 THEN ParseError("Missing key argument.")
        ELSE IF args[1] = <<>> THEN ParseError("Key must be non-empty.")
        ELSE IF require_values /\ Tail(args) = <<>>
             THEN ParseError("Values must not be empty.")
        ELSE Parsed(args[1], Tail(args))

\* the handlers that ask parse_command_args for values
RequireValues(cmd) == cmd \in {"add", "remove"}

\* the handler before `async with repo`: the parse and, in handle_get and
\* handle_search, the refusal of words after the key; handle_list takes no
\* arguments
CheckArgs(cmd, args) ==
    IF cmd = "list" THEN Parsed(<<>>, <<>>)
    ELSE LET p == parse_command_args(Join(args), RequireValues(cmd))
         IN  IF p.error # "none" THEN p
             ELSE IF cmd = "get" /\ p.values # <<>>
             THEN ParseError("Only the values for a single key can be retrieved at a time.")
             ELSE IF cmd = "search" /\ p.values # <<>>
             THEN ParseError("Only a single key can be searched at a time.")
             ELSE p

\* CheckArgs on every command and every list of words
CheckedArgs == [cmd \in Commands, args \in ArgLists |-> CheckArgs(cmd, args)]

\* the handler of one message on its words args, up to the body of `async
\* with repo`: a refused input returns the error message at once; an
\* accepted one enters the repository (SqliteRepository.__aenter__)
HandleArgs(cmd, args) ==
    /\ hand.pc = "idle"
    /\ LET p == CheckedArgs[cmd, args]
       IN  IF p.error # "none"
           THEN /\ hand' = [NoHandler EXCEPT !.cmd = cmd, !.pc = "exited",
                                             !.n = hand.n + 1, !.args = args,
                                             !.reply = p.error]
                /\ UNCHANGED <<client, db_client, hist>>
           ELSE /\ client' = IF client = "none" THEN get_db_client ELSE client
                /\ db_client' = IF client = "none" THEN get_db_client ELSE db_client
                /\ hist' = Append(hist, client')
                /\ hand' = [NoHandler EXCEPT !.cmd = cmd, !.pc = "body",
                                             !.ops = OpsOf(cmd), !.entered = TRUE,
                                             !.handle = client', !.n = hand.n,
                                             !.args = args, !.key = p.key,
                                             !.values = p.values]
    /\ UNCHANGED <<closed, conc>>
    /\ UNCHANGED <<storeVars, queryVars, bootVars>>

CmdNext ==
    \/ \E cmd \in Commands, args \in ArgLists : HandleArgs(cmd, args)
    \/ \E fails \in BOOLEAN : HandleBody(fails)
    \/ HandleExit

CmdSpec == SessInit /\ [][CmdNext]_vars

\* -------------------------------------------------- concurrent handlers
\* Two command handlers running at the same time on the one repository of
\* run_bot.  They interleave at the awaits: between __aenter__ and the
\* repository calls of the body, between the calls, and inside __aexit__
\* between the close of the client and `self._client = None`.

\* the handler up to the body of `async with repo`: SqliteRepository.__aenter__
ConcEnter(h, cmd) ==
    /\ conc[h].pc = "idle"
    /\ client' = IF client = "none" THEN get_db_client ELSE client
    /\ db_client' = IF client = "none" THEN get_db_client ELSE db_client
    /\ hist' = Append(hist, client')
    /\ conc' = [conc EXCEPT ![h] = [cmd |-> cmd, pc |-> "body",
                                      ops |-> OpsOf(cmd), failed |-> FALSE]]
    /\ UNCHANGED <<closed, hand>>
    /\ UNCHANGED <<storeVars, queryVars, bootVars>>

\* one repository call of the body: with _client None its assert fails, on
\* a closed client the store call raises, otherwise it returns
ConcBody(h) ==
    /\ conc[h].pc = "body"
    /\ IF client = "none" \/ client \in closed
       THEN conc' = [conc EXCEPT ![h].pc = "exit", ![h].failed = TRUE]
       ELSE conc' = [conc EXCEPT ![h].ops = @ - 1,
                                 ![h].pc = IF conc[h].ops = 1 THEN "exit" ELSE "body"]
    /\ UNCHANGED <<client, db_client, closed, hand, hist>>
    /\ UNCHANGED <<storeVars, queryVars, bootVars>>

\* SqliteRepository.__aexit__ up to its await: the client is closed
ConcClose(h) ==
    /\ conc[h].pc = "exit"
    /\ IF client # "none"
       THEN /\ closed' = closed \cup {client}
            /\ conc' = [conc EXCEPT ![h].pc = "closing"]
       ELSE /\ closed' = closed
            /\ conc' = [conc EXCEPT ![h].pc = "exited"]
    /\ UNCHANGED <<client, db_client, hand, hist>>
    /\ UNCHANGED <<storeVars, queryVars, bootVars>>

\* the rest of __aexit__: self._client = None
ConcRelease(h) ==
    /\ conc[h].pc = "closing"
    /\ client' = "none"
    /\ conc' = [conc EXCEPT ![h].pc = "exited"]
    /\ UNCHANGED <<db_client, closed, hand, hist>>
    /\ UNCHANGED <<storeVars, queryVars, bootVars>>

ConcNext ==
    \/ \E h \in Handlers, cmd \in Commands : ConcEnter(h, cmd)
    \/ \E h \in Handlers : ConcBody(h)
    \/ \E h \in Handlers : ConcClose(h)
    \/ \E h \in Handlers : ConcRelease(h)

ConcSpec == SessInit /\ [][ConcNext]_vars

\* -------------------------------------------------------------- queries
\* One list_keys or search call on a populated store.  Keys and values are texts
\* (sequences of characters), so that letter case and substrings are what
\* they are in the program.  idx holds the rows of acro_kvs in rowid order;
\* the search index acro_kvs_fts mirrors them.

\* most rows in the store
MaxIdxRows == 12
\* most keys that have two rows
MaxDoubles == 1

Letter == <<"a", "b", "c", "d", "e", "f", "g", "h", "i", "j", "k", "l", "m",
            "n", "o", "p">>

\* the keys Keya, Keyb, ..
KeyText(i) == <<"K", "e", "y", Letter[i]>>

\* the value of the c-th row of key i: One first, then Key (odd i) or
\* seeKeya (even i)
RowVal(i, c) == IF c = 1 THEN <<"O", "n", "e">>
                ELSE IF i % 2 = 1 THEN <<"K", "e", "y">>
                ELSE <<"s", "e", "e", "K", "e", "y", "a">>

\* the terms searched for: "", key, KEY, keya, KeyA, one, zzz
Terms == {<<>>, <<"k", "e", "y">>, <<"K", "E", "Y">>, <<"k", "e", "y", "a">>,
          <<"K", "e", "y", "A">>, <<"o", "n", "e">>, <<"z", "z", "z">>}

\* an earlier add stored one more row: of a new key (keys are named in the
\* order of their first row) or a second value of a key
IndexRow(i) ==
    /\ qres = NoQuery
    /\ Len(idx) < MaxIdxRows
    /\ i <= Cardinality(IdxKeys(idx)) + 1
    /\ Cardinality(RowsOf(idx, KeyText(i))) < 2
    /\ Cardinality(RowsOf(idx, KeyText(i))) = 1
         => Len(idx) - Cardinality(IdxKeys(idx)) < MaxDoubles
    /\ idx' = Append(idx, [key |-> KeyText(i),
                           val |-> RowVal(i, Cardinality(RowsOf(idx, KeyText(i))) + 1)])
    /\ UNCHANGED qres
    /\ UNCHANGED <<storeVars, sessVars, bootVars>>

QuerySearch(term) ==
    /\ qres = NoQuery
    /\ LET r == search(idx, term)
       IN  qres' = [NoQuery EXCEPT !.op = "search", !.term = term,
                                   !.status = r.status, !.keys = r.data,
                                   !.calls = r.calls]
    /\ UNCHANGED idx
    /\ UNCHANGED <<storeVars, sessVars, bootVars>>

QueryListKeys ==
    /\ qres = NoQuery
    /\ \E S \in Sample(IdxKeys(idx)) :
         qres' = [NoQuery EXCEPT !.op = "list_keys", !.status = OK,
                                 !.sample = S, !.calls = 1]
    /\ UNCHANGED idx
    /\ UNCHANGED <<storeVars, sessVars, bootVars>>

QueryInit ==
    /\ tbl = EmptyTable
    /\ writer = "none"
    /\ txView = EmptyTable
    /\ task = [p \in Tasks |-> Idle]
    /\ ref = NoRef
    /\ SessFixture
    /\ QueryIdle
    /\ BootIdle

QueryNext ==
    \/ \E i \in 1..Len(Letter) : IndexRow(i)
    \/ \E term \in Terms : QuerySearch(term)
    \/ QueryListKeys

QuerySpec == QueryInit /\ [][QueryNext]_vars

\* ------------------------------------------------------------ bootstrap
\* db.init_db: the schema file is read and sent to the store.  A schema is
\* the sequence of the statements of the file; a store call carries the
\* statements of the text it is given.

\* most statements in a schema file
MaxStatements == 3

\* the statements a schema file is made of
Statements == {"s1", "s2", "s3"}

\* a schema file holds at least one statement
Schemas == UNION {[1..n -> Statements] : n \in 1..MaxStatements}

\* what ddl_file_path names: the schema file, or (run_bot) the directory
Paths == {"file", "directory"}

\* init_db is called: libsql_client.create_client and the entry of its
\* `async with`
InitDbCall(path) ==
    /\ boot.pc = "idle"
    /\ boot' = [boot EXCEPT !.pc = "opened", !.path = path, !.client = "open"]
    /\ UNCHANGED <<storeVars, sessVars, queryVars>>

\* open(ddl_file_path) and f.read(): a directory cannot be opened
\* and the error leaves the `async with`
InitDbRead(ddl) ==
    /\ boot.pc = "opened"
    /\ IF boot.path = "directory"
       THEN boot' = [boot EXCEPT !.pc = "exit", !.raised = TRUE]
       ELSE boot' = [boot EXCEPT !.pc = "read", !.ddl = ddl]
    /\ UNCHANGED <<storeVars, sessVars, queryVars>>

\* await client.execute(ddl): the whole text in one store call
InitDbExecute ==
    /\ boot.pc = "read"
    /\ boot' = [boot EXCEPT !.calls = Append(@, boot.ddl), !.pc = "exit"]
    /\ UNCHANGED <<storeVars, sessVars, queryVars>>

\* the end of the `async with`: the client is closed; init_db returns or the
\* error reaches run_bot
InitDbExit ==
    /\ boot.pc = "exit"
    /\ boot' = [boot EXCEPT !.pc = "done", !.client = "closed"]
    /\ UNCHANGED <<storeVars, sessVars, queryVars>>

BootNext ==
    \/ \E path \in Paths : InitDbCall(path)
    \/ \E ddl \in Schemas : InitDbRead(ddl)
    \/ InitDbExecute
    \/ InitDbExit

\* run_bot calls init_db before it constructs the repository
BootInit == SessInit /\ client = "none"

BootSpec == BootInit /\ [][BootNext]_vars

\* ------------------------------------------------------------ properties
\* the call of p has returned and no call was issued after it: under SeqSpec
\* tbl is the store exactly as that call left it
Latest(p) == task[p].pc = "done" /\ task[p].seq = Cardinality(Started)

\* C1: remove(K, R) on a key with stored set E (non-empty), R non-empty, run
\* alone: it returns OK and leaves E \ R stored iff set(R) is a subset of E;
\* otherwise it returns NO_VALUES and leaves exactly E stored.
C1_RemoveIffSubset ==
    \A p \in Tasks :
        (Latest(p) /\ task[p].op = "remove" /\ task[p].values # {}
                   /\ Rows(task[p].pre, task[p].key) # {})
        => LET E == Rows(task[p].pre, task[p].key)
               R == task[p].values
           IN  IF R \subseteq E
               THEN task[p].status = OK /\ Rows(tbl, task[p].key) = E \ R
               ELSE task[p].status = NO_VALUES /\ Rows(tbl, task[p].key) = E

\* C2: for an absent key K and non-empty lists V1, V2, add(K, V1) then
\* add(K, V2) run one after the other both return OK and get(K) then returns
\* OK with set(V1) \cup set(V2) (the union does not depend on the order).
C2_AddUnion ==
    \A p, q \in Tasks :
        (task[p].seq = 1 /\ task[q].seq = 2
         /\ task[p].pc = "done" /\ task[q].pc = "done"
         /\ task[p].op = "add" /\ task[q].op = "add"
         /\ task[p].key = task[q].key
         /\ task[p].values # {} /\ task[q].values # {}
         /\ Rows(task[p].pre, task[p].key) = {})
        => /\ task[p].status = OK
           /\ task[q].status = OK
           /\ get(tbl, task[p].key) =
                 [status |-> OK, data |-> task[p].values \cup task[q].values]

\* C3: add is idempotent: every add(K, V) with V non-empty returns OK, and a
\* repeated add(K, V) leaves the stored pairs and get(K) as the first left them.
C3_AddIdempotent ==
    \A p, q \in Tasks :
        (task[p].seq = 1 /\ task[q].seq = 2
         /\ task[p].pc = "done" /\ task[q].pc = "done"
         /\ task[p].op = "add" /\ task[q].op = "add"
         /\ task[p].key = task[q].key
         /\ task[p].values # {} /\ task[q].values = task[p].values)
        => /\ task[p].status = OK
           /\ task[q].status = OK
           /\ tbl = task[q].pre
           /\ get(tbl, task[q].key) = get(task[q].pre, task[q].key)

\* the scenario of C4: K holds exactly {v1, v2} (two non-empty strings) when
\* the first of the two calls is issued; p runs add(K, [v3]) with a third
\* non-empty string and q runs remove(K, [v1]); both have returned
C4_Held(p, q) ==
    Rows(task[IF task[p].seq = 1 THEN p ELSE q].pre, task[p].key)

C4_Scenario(p, q) ==
    /\ p # q
    /\ task[p].pc = "done" /\ task[p].op = "add"
    /\ task[q].pc = "done" /\ task[q].op = "remove"
    /\ task[p].key = task[q].key
    /\ Cardinality(task[p].values) = 1 /\ Cardinality(task[q].values) = 1
    /\ Cardinality(C4_Held(p, q)) = 2 /\ ~("" \in C4_Held(p, q))
    /\ task[q].values \subseteq C4_Held(p, q)
    /\ task[p].values \cap (C4_Held(p, q) \cup {""}) = {}

\* {v2, v3}
C4_Expected(p, q) == (C4_Held(p, q) \ task[q].values) \cup task[p].values

\* the two calls of the scenario ran one after the other: remove read K after
\* add's commit, or add read K after remove's commit
C4_Serial(p, q) ==
    \/ task[p].values \subseteq Rows(task[q].pre, task[q].key)
    \/ task[q].values \cap Rows(task[p].pre, task[p].key) = {}

C5_RemoveAll ==
    \A p \in Tasks :
        (Latest(p) /\ task[p].op = "remove"
                   /\ Rows(task[p].pre, task[p].key) # {}
                   /\ task[p].values = Rows(task[p].pre, task[p].key))
        => /\ task[p].status = OK
           /\ tbl = DeleteKey(task[p].pre, task[p].key)
           /\ get(tbl, task[p].key) = [status |-> NO_KEY, data |-> {}]

\* no call on the key of p's call was issued after p's call that could add to it
NoLaterAdd(p) ==
    \A q \in Tasks : ~(task[q].seq > task[p].seq /\ task[q].op = "add"
                                                 /\ task[q].key = task[p].key)

\* C6: delete(K) on a key with no stored pair returns NO_KEY and changes
\* nothing; on a key with stored pairs it returns OK and removes every pair of
\* K and no other, after which get(K) returns NO_KEY and no list_keys result
\* contains K, as long as no later add(K, ..) is issued.
C6_Delete ==
    \A p \in Tasks :
        (task[p].pc = "done" /\ task[p].op = "delete")
        => LET K == task[p].key
               E == Rows(task[p].pre, K)
           IN  IF E = {}
               THEN /\ task[p].status = NO_KEY
                    /\ Latest(p) => tbl = task[p].pre
               ELSE /\ task[p].status = OK
                    /\ Latest(p) => tbl = DeleteKey(task[p].pre, K)
                    /\ NoLaterAdd(p) =>
                         /\ Rows(tbl, K) = {}
                         /\ get(tbl, K) = [status |-> NO_KEY, data |-> {}]
                         /\ \A S \in list_keys(tbl) : ~(K \in S)

\* C6 witness: a delete of a key with two stored pairs has returned OK
C6_Witness ==
    \E p \in Tasks :
        /\ Latest(p) /\ task[p].op = "delete" /\ task[p].status = OK
        /\ Cardinality(Rows(task[p].pre, task[p].key)) = 2
        /\ PresentKeys(tbl) = {}

\* C7: add(K, []) returns NO_VALUES in its first step and issues no store
\* write: the committed table and the transaction state stay as they were, a
\* key that was absent is still absent (get(K) is NO_KEY with no data), and
\* the call never reaches an INSERT or a commit.
C7_AddEmpty ==
    /\ [](\A p \in Tasks :
            (task[p].op = "add" /\ task[p].values = {})
            => (task[p].pc = "done" /\ task[p].status = NO_VALUES))
    /\ [][\A p \in Tasks :
            (task[p].pc = "idle" /\ task'[p].op = "add" /\ task'[p].values = {})
            => /\ tbl' = tbl /\ writer' = writer /\ txView' = txView
               /\ task'[p].status = NO_VALUES
               /\ Rows(tbl, task'[p].key) = {}
                    => get(tbl', task'[p].key) = [status |-> NO_KEY, data |-> {}]]_vars

\* C7 witness: add with an empty list on an absent key has returned
C7_Witness ==
    \E p \in Tasks :
        /\ task[p].pc = "done" /\ task[p].op = "add" /\ task[p].values = {}
        /\ Rows(task[p].pre, task[p].key) = {}
        /\ Rows(tbl, task[p].key) = {}

\* C8 (as stated): get(K) returns NO_KEY with no data iff K has no stored
\* pair; otherwise OK with exactly the set of values stored for K.
C8_GetFullSet ==
    \A p \in Tasks :
        (task[p].pc = "done" /\ task[p].op = "get")
        => LET E == Rows(task[p].pre, task[p].key)
           IN  IF E = {}
               THEN task[p].status = NO_KEY /\ task[p].data = {}
               ELSE task[p].status = OK /\ task[p].data = E

\* C8 (amended): get(K) returns NO_KEY with no data iff K has no stored pair;
\* otherwise OK with exactly the non-empty strings stored for K (a stored
\* empty string is never reported, so the data can be empty with status OK).
C8_GetNonEmptyStrings ==
    \A p \in Tasks :
        (task[p].pc = "done" /\ task[p].op = "get")
        => LET E == Rows(task[p].pre, task[p].key)
           IN  IF E = {}
               THEN task[p].status = NO_KEY /\ task[p].data = {}
               ELSE task[p].status = OK /\ task[p].data = E \ {""}

\* C8 witness: get on a key that stores the empty string and another value
C8_Witness ==
    \E p \in Tasks :
        /\ task[p].pc = "done" /\ task[p].op = "get" /\ task[p].status = OK
        /\ "" \in Rows(task[p].pre, task[p].key)
        /\ task[p].data # {}

\* C9: no (key, val) pair occurs twice in the base table, committed or inside
\* the open transaction, whatever the interleaving of add, remove and delete.
C9_NoDuplicatePair ==
    \A kv \in Pairs : tbl[kv] <= 1 /\ txView[kv] <= 1

\* C9 witness: two overlapping adds to one key carried the same new value;
\* one committed it and the other's INSERT was refused
C9_Witness ==
    \E p, q \in Tasks :
        /\ task[p].op = "add" /\ task[q].op = "add" /\ task[p].key = task[q].key
        /\ task[p].status = OK /\ task[q].status = RAISED
        /\ \E v \in task[p].values \cap task[q].values :
              /\ ~(v \in Rows(task[p].pre, task[p].key))
              /\ ~(v \in Rows(task[q].pre, task[q].key))
              /\ tbl[<<task[p].key, v>>] = 1

\* the pairs add set out to insert: set(values) - existing_values
NewPairs(p) ==
    {<<task[p].key, v>> : v \in task[p].values \ get(task[p].pre, task[p].key).data}

\* C10: the write of add is atomic: every step of an add(K, V) either leaves
\* the committed table as it is or commits all of its new pairs at once (and
\* nothing else); while the add is uncommitted none of the pairs it has
\* inserted is in the committed table.
C10_AddAtomic ==
    /\ [](\A p \in Tasks :
            (task[p].op = "add" /\ writer = p)
            => \A kv \in Pairs : txView[kv] # tbl[kv] => tbl[kv] = 0)
    /\ [][\A p \in Tasks :
            (task[p].op = "add" /\ task'[p] # task[p])
            => \/ tbl' = tbl
               \/ /\ task'[p].status = OK
                  /\ \A kv \in Pairs :
                       tbl'[kv] = IF kv \in NewPairs(p) THEN 1 ELSE tbl[kv]
                  /\ \A kv \in NewPairs(p) : tbl[kv] = 0]_vars

\* C10 witness: an add of two new pairs has committed while the other task's
\* call was in flight
C10_Witness ==
    \E p, q \in Tasks :
        /\ task[p].op = "add" /\ task[p].pc = "done" /\ task[p].status = OK
        /\ Cardinality(NewPairs(p)) >= 2
        /\ \A kv \in NewPairs(p) : tbl[kv] = 1
        /\ ~(task[q].pc \in {"idle", "done"})

\* the remove of p passed its checks with a non-empty remainder: it replaces
\* K's rows by delete-then-reinsert in one transaction
C11_Replaces(p) ==
    /\ task[p].op = "remove" /\ task[p].values # {}
    /\ task[p].values \subseteq get(task[p].pre, task[p].key).data
    /\ get(task[p].pre, task[p].key).data \ task[p].values # {}

\* no call other than p's writes to the key of p's call
C11_NoOtherWriter(p) ==
    \A q \in Tasks \ {p} :
        task[q].op \in {"none", "get", "list_keys"} \/ task[q].key # task[p].key

\* C11: a remove(K, R) that leaves a non-empty remainder replaces K's rows
\* atomically: with no other writer on K, the committed rows of K stay the
\* old set E until the commit, and every get(K) of the other task returns
\* what it returns on E or what it returns on E \ R, never NO_KEY and never
\* a set in between.
C11_RemoveAtomic ==
    \A p \in Tasks :
        (C11_Replaces(p) /\ C11_NoOtherWriter(p))
        => LET K == task[p].key
               E == Rows(task[p].pre, K)
           IN  /\ task[p].pc # "done" => Rows(tbl, K) = E
               /\ \A q \in Tasks \ {p} :
                    (task[q].op = "get" /\ task[q].key = K /\ task[q].pc = "done")
                    => /\ task[q].status = OK
                       /\ task[q].data \in {E \ {""}, (E \ task[p].values) \ {""}}

\* C11 witness: a get(K) issued after remove(K, R) started has returned the
\* old set while remove's DELETE and INSERTs wait for the commit
C11_Witness ==
    \E p, q \in Tasks :
        /\ C11_Replaces(p) /\ task[p].pc = "remove_commit"
        /\ task[q].op = "get" /\ task[q].key = task[p].key /\ task[q].pc = "done"
        /\ task[q].seq = 2
        /\ task[q].data = Rows(task[p].pre, task[p].key)
        /\ Rows(txView, task[p].key) # Rows(tbl, task[p].key)

\* C12: when a store call of an add or remove fails after its transaction
\* was started and before the commit, the transaction is rolled back: none
\* of its statements is visible and no transaction of a call that has
\* exited stays open.
C12_RolledBackOnFailure ==
    \A p \in Tasks :
        (task[p].op \in {"add", "remove"} /\ task[p].pc = "done"
                                          /\ task[p].status = RAISED)
        => /\ writer # "orphan"
           /\ Latest(p) => tbl = task[p].pre

\* C20: for every key K and every list V with an empty string and at least
\* one non-empty string, add(K, V) returns OK and get(K) afterwards returns OK
\* with exactly the non-empty strings stored for K, those of V among them.
C20_AddEmptyString ==
    \A p \in Tasks :
        (Latest(p) /\ task[p].op = "add" /\ "" \in task[p].values
                   /\ task[p].values # {""})
        => /\ task[p].status = OK
           /\ get(tbl, task[p].key) =
                 [status |-> OK, data |-> Rows(tbl, task[p].key) \ {""}]
           /\ (task[p].values \ {""}) \subseteq get(tbl, task[p].key).data

C14_FreshHandle ==
    /\ hand.pc = "exited" => db_client = "none"
    /\ \A i, j \in 1..Len(hist) : i < j => hist[i] # hist[j]

\* C15: with n distinct present keys list_keys returns OK and exactly
\* min(10, n) distinct keys, each of which has a stored pair; on an empty
\* store it returns OK with an empty list.
C15_ListKeys ==
    qres.op = "list_keys"
    => /\ qres.status = OK
       /\ qres.sample \subseteq IdxKeys(idx)
       /\ Cardinality(qres.sample) =
             IF Cardinality(IdxKeys(idx)) < 10 THEN Cardinality(IdxKeys(idx)) ELSE 10
       /\ idx = <<>> => qres.sample = {}

\* C15 witness: list_keys on a store with more than 10 keys has returned 10
C15_Witness ==
    /\ qres.op = "list_keys"
    /\ Cardinality(IdxKeys(idx)) > 10
    /\ Cardinality(qres.sample) = 10

\* the row's key or value contains the term, letter case aside
C16_Matches(r, t) ==
    \/ IsSubstring(Lower(t), Lower(r.key))
    \/ IsSubstring(Lower(t), Lower(r.val))

\* the rank of the best matching row of key k: rank first, rowid second
C16_Best(k, t) ==
    LET scores == {RowRank(idx[i], t) * 100 + i :
                      i \in {j \in RowsOf(idx, k) : C16_Matches(idx[j], t)}}
    IN  CHOOSE m \in scores : \A n \in scores : m <= n

\* C16: search(term) returns at most 10 keys, pairwise distinct, each with a
\* stored pair whose key or value matches the term, in rank order (a key
\* whose best matching row ranks better comes first); the status is OK iff
\* the list is non-empty.
C16_SearchResult ==
    qres.op = "search"
    => /\ Len(qres.keys) <= 10
       /\ \A i, j \in 1..Len(qres.keys) : i < j => qres.keys[i] # qres.keys[j]
       /\ \A i \in 1..Len(qres.keys) :
             \E n \in RowsOf(idx, qres.keys[i]) : C16_Matches(idx[n], qres.term)
       /\ \A i, j \in 1..Len(qres.keys) :
             i < j => C16_Best(qres.keys[i], qres.term) < C16_Best(qres.keys[j], qres.term)
       /\ qres.status = OK <=> qres.keys # <<>>

\* C16 witness: more than 10 rows match the term, one of the returned keys
\* has two matching rows and a row stored later outranks an earlier one
C16_Witness ==
    /\ qres.op = "search" /\ qres.status = OK
    /\ Len(RankedRows(idx, qres.term)) > 10
    /\ \E i \in 1..Len(qres.keys) : Cardinality(RowsOf(idx, qres.keys[i])) = 2
    /\ \E m, n \in 1..Len(idx) : /\ m > n
                                /\ RowRank(idx[m], qres.term) = 1
                                /\ RowRank(idx[n], qres.term) = 2

\* the present keys with a pair that matches the term
C17_MatchingKeys(t) ==
    {k \in IdxKeys(idx) : \E n \in RowsOf(idx, k) : C16_Matches(idx[n], t)}

\* C17: whenever more than 10 distinct present keys match the term, search
\* returns OK with exactly 10 keys, however many matching rows a key has.
C17_ExactlyTen ==
    (qres.op = "search" /\ qres.term # <<>>
                        /\ Cardinality(C17_MatchingKeys(qres.term)) > 10)
    => /\ qres.status = OK
       /\ Len(qres.keys) = 10

\* C18: search("") returns NO_KEY with an empty list and issues no store
\* call; a non-empty term that matches no stored key or value returns NO_KEY
\* with an empty list.
C18_NoMatch ==
    qres.op = "search"
    => /\ qres.term = <<>>
            => qres.status = NO_KEY /\ qres.keys = <<>> /\ qres.calls = 0
       /\ (qres.term # <<>> /\ C17_MatchingKeys(qres.term) = {})
            => qres.status = NO_KEY /\ qres.keys = <<>>

\* C18 witness: search("") on a store with rows has returned
C18_Witness ==
    /\ qres.op = "search" /\ qres.term = <<>>
    /\ Len(idx) >= 2
    /\ qres.status = NO_KEY

C26_RemoveCheckOrder ==
    [][\A p \in Tasks :
         (task[p].pc = "idle" /\ task'[p].op = "remove")
         => LET r == task'[p]
                E == Rows(tbl, r.key)
            IN  /\ r.values = {}
                     => /\ r.pc = "done" /\ r.status = NO_VALUES
                        /\ <<tbl, writer, txView>>' = <<tbl, writer, txView>>
                /\ (r.values # {} /\ E = {})
                     => /\ r.pc = "done" /\ r.status = NO_KEY
                        /\ <<tbl, writer, txView>>' = <<tbl, writer, txView>>
                /\ (r.values # {} /\ E # {})
                     => IF r.values \subseteq {v \in E : Truthy(v)}
                        THEN r.pc \in {"delete_get", "remove_delete"}
                        ELSE r.pc = "done" /\ r.status = NO_VALUES]_vars

\* C26 witness: remove with an empty list returned NO_VALUES for an absent
\* key and remove with a non-empty list returned NO_KEY for an absent key
C26_Witness ==
    /\ task["t1"].op = "remove" /\ task["t1"].values = {}
    /\ Rows(task["t1"].pre, task["t1"].key) = {}
    /\ task["t1"].status = NO_VALUES
    /\ task["t2"].op = "remove" /\ task["t2"].values # {}
    /\ Rows(task["t2"].pre, task["t2"].key) = {}
    /\ task["t2"].status = NO_KEY

\* C29: for every sequence of commands handled one after another through the
\* single repository created without a client, each command's repository
\* operation runs on an open store client: a session acquired after an
\* earlier one was released never holds a client that has been closed.
C29_OpenClient ==
    (hand.pc = "body" /\ hist[1] = "single")
    => /\ client # "none"
       /\ client \notin closed

\* the stored set of K after add(K, A) then remove(K, R) run one after the
\* other on a key that holds E0, and after remove(K, R) then add(K, A)
C25_AddThenRemove(E0, A, R) ==
    {v \in E0 \cup A : Truthy(v)} \ R
C25_RemoveThenAdd(E0, A, R) ==
    ({v \in E0 : Truthy(v)} \ R) \cup A

\* p ran add(K, A) and q ran remove(K, R) on a present key, A holds a new
\* non-empty value and R is a non-empty part of what get reports
C25_Scenario(p, q) ==
    /\ p # q
    /\ task[p].op = "add" /\ task[q].op = "remove"
    /\ task[p].key = task[q].key
    /\ task[q].values # {}
    /\ \E v \in task[p].values : Truthy(v) /\ v \notin Rows(task[p].pre, task[p].key)

\* both calls read K before either wrote
C25_Overlap(p, q) ==
    /\ C25_Scenario(p, q)
    /\ Rows(task[p].pre, task[p].key) = Rows(task[q].pre, task[q].key)
    /\ task[q].values \subseteq {v \in Rows(task[q].pre, task[q].key) : Truthy(v)}

C21_FailurePropagates ==
    /\ [](\A p \in Tasks :
            /\ task[p].raised_at # "none"
                 => task[p].pc = "done" /\ task[p].status = RAISED
            /\ (task[p].pc = "done" /\ task[p].raised_at = "none")
                 => LET r == task[p]
                        E == Rows(r.pre, r.key)
                    IN  /\ r.status \in {OK, NO_KEY, NO_VALUES}
                        /\ (r.op \in {"add", "remove"} /\ r.values = {})
                             => r.status = NO_VALUES
                        /\ (r.op \in {"get", "delete"} /\ E = {})
                             => r.status = NO_KEY
                        /\ (r.op = "remove" /\ r.values # {} /\ E = {})
                             => r.status = NO_KEY
                        /\ (r.op = "remove" /\ r.values # {} /\ E # {}
                              /\ ~(r.values \subseteq {v \in E : Truthy(v)}))
                             => r.status = NO_VALUES
            /\ (task[p].pc = "done" /\ task[p].op \in {"add", "remove"}
                  /\ task[p].values = {})
                 => task[p].raised_at = "none")
    /\ [][\A p \in Tasks :
            task[p].raised_at # "none" => task'[p] = task[p] /\ tbl' = tbl]_vars

\* C21 witness: the commit of an add raised: the call ended with the
\* exception and the store holds what it held
C21_Witness ==
    /\ task["t1"].op = "add" /\ task["t1"].raised_at = "add_commit"
    /\ task["t1"].status = RAISED
    /\ tbl = task["t1"].pre

\* C22: every repository operation that returns yields a Result whose status
\* lies in the set allowed for the operation: get and search in {OK, NO_KEY}
\* with a list as data (empty whenever NO_KEY), list_keys only OK, add in
\* {OK, NO_VALUES}, delete in {OK, NO_KEY}, remove in {OK, NO_KEY,
\* NO_VALUES}; add, remove and delete always carry data None.
C22_ResultShape ==
    \A p \in Tasks :
        (task[p].pc = "done" /\ task[p].status # RAISED)
        => LET r == task[p]
           IN  CASE r.op = "get" ->
                      /\ r.status \in {OK, NO_KEY}
                      /\ r.data \subseteq Vals
                      /\ r.status = NO_KEY => r.data = {}
                 [] r.op = "search" ->
                      /\ r.status \in {OK, NO_KEY}
                      /\ r.data \subseteq Keys
                      /\ r.status = NO_KEY => r.data = {}
                 [] r.op = "list_keys" ->
                      r.status = OK /\ r.data \subseteq Keys
                 [] r.op = "add" ->
                      r.status \in {OK, NO_VALUES} /\ r.data = None
                 [] r.op = "delete" ->
                      r.status \in {OK, NO_KEY} /\ r.data = None
                 [] r.op = "remove" ->
                      r.status \in {OK, NO_KEY, NO_VALUES} /\ r.data = None

\* C22 witness: a delete of an absent key has returned NO_KEY with None and
\* a search has returned OK with a key
C22_Witness ==
    /\ task["t1"].op = "delete" /\ task["t1"].pc = "done"
    /\ task["t1"].status = NO_KEY /\ task["t1"].data = None
    /\ task["t2"].op = "search" /\ task["t2"].pc = "done"
    /\ task["t2"].status = OK /\ task["t2"].data # {}

\* the keys with a pair in table t that matches the term
C24_MatchingKeys(t, term) ==
    {k \in Keys : \E v \in Vals :
        /\ t[<<k, v>>] > 0
        /\ RowRank([key |-> TextOf[k], val |-> TextOf[v]], term) > 0}

C27_Frame ==
    /\ [](\A p \in Tasks :
            (task[p].op \in {"add", "remove", "delete"} /\ task[p].pc = "done"
               /\ task[p].status \in {NO_KEY, NO_VALUES})
            => tbl = task[p].pre /\ writer = "none")
    /\ [][\A p \in Tasks :
            (task'[p] # task[p]
               /\ \/ task'[p].op \in {"get", "list_keys", "search"}
                  \/ task'[p].status \in {NO_KEY, NO_VALUES})
            => <<tbl, writer, txView>>' = <<tbl, writer, txView>>]_vars

\* C27 witness: remove returned NO_VALUES for a list of which one value is
\* stored and one is not, the stored pairs are the ones before the call, and
\* a search has run
C27_Witness ==
    /\ task["t1"].op = "remove" /\ task["t1"].status = NO_VALUES
    /\ task["t1"].values \cap Rows(task["t1"].pre, task["t1"].key) # {}
    /\ Cardinality(Rows(tbl, task["t1"].key)) = 2
    /\ tbl = task["t1"].pre
    /\ task["t2"].op = "search" /\ task["t2"].status = OK

\* C23: in sequential executions a key K changes from absent to present only
\* by an add(K, V) that returns OK and inserts at least one new value, and
\* from present to absent only by a delete(K) or a remove(K, R) that returns
\* OK and empties its set; every other call (a remove that leaves a
\* non-empty remainder among them) leaves K's absent / present state as it is.
C23_Transitions ==
    [][\A K \in Keys :
         /\ (Rows(tbl, K) = {} /\ Rows(tbl', K) # {})
              => \E p \in Tasks :
                   /\ task[p].op = "add" /\ task[p].key = K
                   /\ task[p].pc # "done"
                   /\ task'[p].pc = "done" /\ task'[p].status = OK
                   /\ task[p].values \ Rows(task[p].pre, K) # {}
         /\ (Rows(tbl, K) # {} /\ Rows(tbl', K) = {})
              => \E p \in Tasks :
                   /\ task[p].op \in {"delete", "remove"} /\ task[p].key = K
                   /\ task[p].pc # "done"
                   /\ task'[p].pc = "done" /\ task'[p].status = OK
                   /\ task[p].op = "remove"
                        => Rows(task[p].pre, K) \ task[p].values = {}]_vars

\* what a call leaves of its key and returns when it runs alone on a key
\* that stores the set E0: the call's status, get's data and the stored set
C28_Alone(E0, op, V) ==
    LET E == {v \in E0 : Truthy(v)}
    IN  CASE op = "get" ->
               [status |-> IF E0 = {} THEN NO_KEY ELSE OK, data |-> E, rows |-> E0]
          [] op = "add" ->
               IF V = {} THEN [status |-> NO_VALUES, data |-> {}, rows |-> E0]
               ELSE IF "" \in V /\ "" \in E0
                    THEN [status |-> RAISED, data |-> {}, rows |-> E0]
               ELSE [status |-> OK, data |-> {}, rows |-> E0 \cup V]
          [] op = "remove" ->
               IF V = {} THEN [status |-> NO_VALUES, data |-> {}, rows |-> E0]
               ELSE IF E0 = {} THEN [status |-> NO_KEY, data |-> {}, rows |-> E0]
               ELSE IF ~(V \subseteq E)
                    THEN [status |-> NO_VALUES, data |-> {}, rows |-> E0]
               ELSE [status |-> OK, data |-> {}, rows |-> E \ V]
          [] op = "delete" ->
               IF E0 = {} THEN [status |-> NO_KEY, data |-> {}, rows |-> E0]
               ELSE [status |-> OK, data |-> {}, rows |-> {}]

\* the two calls are on different keys
C28_DifferentKeys(p, q) ==
    /\ p # q
    /\ task[p].op \in {"get", "add", "remove", "delete"}
    /\ task[q].op \in {"get", "add", "remove", "delete"}
    /\ task[p].key # task[q].key

\* C28: operations on different keys do not interfere.  A step of add,
\* remove or delete on key K leaves the stored pairs of every other key
\* unchanged, and two calls on different keys that run concurrently end, in
\* every interleaving of their store calls, with the results and the stored
\* pairs that each of them yields when it runs alone on the store the first
\* of them found (so with those of running them one after the other, in
\* either order).
C28_NoInterference ==
    /\ [](\A p, q \in Tasks :
            (task[p].pc = "done" /\ task[q].pc = "done" /\ C28_DifferentKeys(p, q))
            => LET T0 == task[IF task[p].seq = 1 THEN p ELSE q].pre
                   o == C28_Alone(Rows(T0, task[p].key), task[p].op, task[p].values)
               IN  /\ task[p].status = o.status
                   /\ task[p].op = "get" => task[p].data = o.data
                   /\ Rows(tbl, task[p].key) = o.rows)
    /\ [][tbl' # tbl
            => \A K \in Keys :
                 Rows(tbl', K) # Rows(tbl, K)
                 => \E p \in Tasks : task[p].key = K /\ task'[p] # task[p]]_vars

\* C28 witness: an add on one key and a remove on the other overlapped (the
\* remove read its key before the add committed, and committed after it);
\* both returned OK and both keys hold what the calls leave when run alone
C28_Witness ==
    /\ C28_DifferentKeys("t1", "t2")
    /\ task["t1"].op = "add" /\ task["t2"].op = "remove"
    /\ task["t1"].pc = "done" /\ task["t2"].pc = "done"
    /\ task["t1"].status = OK /\ task["t2"].status = OK
    /\ task["t2"].pre = task["t1"].pre
    /\ Rows(tbl, task["t1"].key) # Rows(task["t1"].pre, task["t1"].key)
    /\ Rows(tbl, task["t2"].key) # Rows(task["t1"].pre, task["t2"].key)
    /\ Rows(tbl, task["t2"].key) # {}

\* C30: when two command handlers run concurrently on the same repository,
\* the release performed by one of them (__aexit__ closing the client and
\* setting _client to None) never happens while the other is still inside its
\* `async with repo` block: no repository operation executes with _client
\* None or closed.
C30_NoReleaseInsideBlock ==
    \A h \in Handlers :
        conc[h].pc = "body" => client # "none" /\ client \notin closed

\* C32: with the store reachable, every add(K, V) call returns a Result (OK
\* or NO_VALUES) in every sequence and every interleaving with other add,
\* remove and delete calls: it never ends in a hard failure caused by
\* inserting a pair that is already stored.
C32_AddReturns ==
    \A p \in Tasks :
        (task[p].op = "add" /\ task[p].pc = "done")
        => task[p].status \in {OK, NO_VALUES}

\* the values the call of q removed from its key: the values passed to
\* remove, the values delete found
C31_Removed(q) ==
    IF task[q].op = "remove" THEN task[q].values
    ELSE Rows(task[q].pre, task[q].key)

\* C31: a removed pair never reappears without an add.  In every
\* interleaving, once delete(K) or remove(K, R) has returned OK, a value it
\* removed is stored for K again only if an add(K, V) that contains the value
\* wrote it; a remove that read K before a concurrent delete or remove
\* committed does not re-insert what the other call removed.
C31_NoReappearance ==
    \A q \in Tasks :
        (task[q].op \in {"delete", "remove"} /\ task[q].pc = "done"
           /\ task[q].status = OK)
        => \A v \in C31_Removed(q) \cap Rows(tbl, task[q].key) :
             \E p \in Tasks \ {q} :
                /\ task[p].op = "add" /\ task[p].key = task[q].key
                /\ v \in task[p].values

\* the call of p empties the key K that holds the rows E0: delete(K), or
\* remove(K, E) with E the values get reports for K
C33_Empties(p, K, E0) ==
    /\ task[p].key = K
    /\ \/ task[p].op = "delete"
       \/ /\ task[p].op = "remove"
          /\ task[p].values # {}
          /\ task[p].values = {v \in E0 : Truthy(v)}

\* C33: for a present key K, when several calls that empty K (delete(K)
\* and / or remove(K, E)) run concurrently and no add intervenes, exactly one
\* of them returns OK and every other returns NO_KEY.
C33_OneEmptier ==
    \A K \in Keys :
        LET E0 == Rows(task["t1"].pre, K)
        IN  (/\ task["t1"].pc = "done" /\ task["t2"].pc = "done"
             /\ E0 # {}
             /\ C33_Empties("t1", K, E0) /\ C33_Empties("t2", K, E0))
            => \E p \in Tasks :
                 /\ task[p].status = OK
                 /\ \A q \in Tasks \ {p} : task[q].status = NO_KEY

\* C34: run sequentially from an empty store with non-empty string values,
\* the repository refines the reference map from keys to sets of values:
\* after every call of every sequence the status of the repository is the
\* status of the map, get returns the set the map holds, and the stored
\* values of every key are the set the map holds for it (a key mapped to the
\* empty set is absent).
C34_RefinesMap ==
    task["t1"].pc = "done"
    => /\ task["t1"].status = ref.status
       /\ task["t1"].op = "get" => task["t1"].data = ref.data
       /\ \A K \in Keys : Rows(tbl, K) = ref.map[K]
       /\ writer = "none"

\* C34 witness: the third call of a sequence, a remove that returned OK and
\* left a part of the set of its key, while the other key is present as well
C34_Witness ==
    /\ ref.n = 3
    /\ task["t1"].pc = "done" /\ task["t1"].op = "remove"
    /\ task["t1"].status = OK
    /\ ref.map[task["t1"].key] # {}
    /\ \A K \in Keys : Rows(tbl, K) # {}

\* C35: the command handlers call the repository only for well-formed input.
\* A handler that has entered `async with repo` holds a non-empty key
\* (every handler but handle_list), at least one value (handle_add,
\* handle_remove) and no word after the key (handle_get, handle_search); and
\* a handler whose words parse_command_args refuses acquires no session,
\* makes no repository call and returns the error message.
C35_WellFormed ==
    hand.entered =>
        /\ hand.cmd # "list" => hand.key # <<>>
        /\ hand.cmd \in {"add", "remove"} => Len(hand.values) >= 1
        /\ hand.cmd \in {"get", "search"} => hand.values = <<>>

C35_Refused ==
    LET p == parse_command_args(Join(hand'.args), RequireValues(hand'.cmd))
    IN  (/\ hand.pc = "idle"
         /\ hand' # hand
         /\ hand'.cmd # "list"
         /\ p.error # "none")
        => /\ hand'.pc = "exited"
           /\ ~hand'.entered
           /\ hand'.ops = 0
           /\ hand'.reply = p.error
           /\ UNCHANGED <<client, db_client, closed, hist>>

C35_CallsOnlyWellFormed == [](C35_WellFormed) /\ [][C35_Refused]_vars

\* handle_add has refused an empty key followed by a value, on a repository
\* that holds a client
C35_Witness ==
    /\ hand.cmd = "add"
    /\ hand.pc = "exited"
    /\ hand.args = <<<<Quote, Quote>>, <<"v">>>>
    /\ hand.reply = "Key must be non-empty."
    /\ ~hand.entered
    /\ client = "given"

\* C36: init_db sends the schema to the store as a sequence of independent
\* statements, one store call per statement: when init_db has returned, it
\* has made as many store calls as the schema file holds statements, and the
\* i-th call carries the i-th statement alone.
C36_OneCallPerStatement ==
    (boot.pc = "done" /\ ~boot.raised) =>
        /\ Len(boot.calls) = Len(boot.ddl)
        /\ \A i \in 1..Len(boot.calls) : boot.calls[i] = <<boot.ddl[i]>>

====
